---- MODULE Spec2Model ----
(***************************************************************************)
(* Url Watcher: the per-target check (fetch, normalise, fingerprint,        *)
(* compare with Deno KV, commit, notify) and the batch orchestrator that    *)
(* runs one check per configured URL and joins them with allSettled.        *)
(*                                                                          *)
(* Documents are sequences of lexical tokens (text, whitespace, comments,   *)
(* tags with attributes); the regular expressions of watcher.ts are         *)
(* modelled by what they match on such sequences.  Every await of the       *)
(* source is one action; external calls (fetch, kv.get, commit,             *)
(* sendMessage) resolve or fail nondeterministically.                       *)
(***************************************************************************)
EXTENDS Integers, Sequences, FiniteSets, TLC

\* ---------------------------------------------------------------- bounds
\* Number of per-target checks (calls of checkOne) started in a run: two
\* invocations over one target, or one invocation over two targets.
MaxChecks == 2
\* Largest value of the wall clock (new Date()).
MaxClock == 2
\* Longest document, in tokens, given to the normalizer on its own.
MaxDocLen == 4
\* Longest value of the WATCH_URLS setting, in characters.
MaxEnvLen == 5

\* ------------------------------------------------------------- documents
\* JavaScript null / undefined for strings and KV values.
Null == <<>>

Tok(kind, name, attrs) == [kind |-> kind, name |-> name, attrs |-> attrs]
Text(s) == Tok("text", s, <<>>)
Ws(s) == Tok("ws", s, <<>>)
Comment(s) == Tok("comment", s, <<>>)
Open(tag, attrs) == Tok("open", tag, attrs)
Close(tag) == Tok("close", tag, <<>>)
Attr(k, v) == <<k, v>>

\* The `i` flag of the regular expressions: ASCII lower-casing of the names used.
Lower(s) ==
    CASE s = "BODY" -> "body"
      [] s = "INPUT" -> "input"
      [] s = "TYPE" -> "type"
      [] s = "NAME" -> "name"
      [] s = "HIDDEN" -> "hidden"
      [] s = "_TOKEN" -> "_token"
      [] s = "CSRF" -> "csrf"
      [] s = "CSRF_TOKEN" -> "csrf_token"
      [] s = "AUTHENTICITY_TOKEN" -> "authenticity_token"
      [] s = "SCRIPT" -> "script"
      [] s = "STYLE" -> "style"
      [] OTHER -> s

CsrfNames == {"_token", "csrf", "csrf_token", "authenticity_token"}

IsOpen(t, tag) == t.kind = "open" /\ Lower(t.name) = tag
IsClose(t, tag) == t.kind = "close" /\ Lower(t.name) = tag

\* Indices of the opening and of the closing tags named tag in s.
OpenPositions(s, tag) == {i \in 1..Len(s) : IsOpen(s[i], tag)}
ClosePositions(s, tag) == {i \in 1..Len(s) : IsClose(s[i], tag)}
Least(S) == CHOOSE i \in S : \A j \in S : i <= j

\* Mutant: the match is greedy, up to the last closing tag of the document.
extractBody_Greedy(html) ==
    LET opens == OpenPositions(html, "body")
        closes == ClosePositions(html, "body")
        ok == {p \in opens : \E q \in closes : q > p}
    IN IF ok = {} THEN Null
       ELSE LET p == Least(ok)
                q == CHOOSE c \in closes : \A c2 \in closes : c2 <= c
            IN <<SubSeq(html, p + 1, q - 1)>>

\* html.match(/<body\b[^>]*>([\s\S]*?)<\/body>/i): leftmost opening tag that has
\* a closing tag after it, up to the nearest closing tag.  <<inner>> or Null.
extractBody(html) ==
    LET opens == OpenPositions(html, "body")
        closes == ClosePositions(html, "body")
        ok == {p \in opens : \E q \in closes : q > p}
    IN IF ok = {} THEN Null
       ELSE LET p == Least(ok)
                q == Least({c \in closes : c > p})
            IN <<SubSeq(html, p + 1, q - 1)>>

\* /<input\b[^>]*\btype=("|')hidden("|')[^>]*\bname=("|')(_token|...)("|')[^>]*>/gis
\* matches an input tag with a type=hidden attribute followed, later in the tag,
\* by a name attribute whose value is one of CsrfNames.
IsCsrfInput(t) ==
    /\ IsOpen(t, "input")
    /\ \E p, q \in 1..Len(t.attrs) :
          /\ p < q
          /\ Lower(t.attrs[p][1]) = "type" /\ Lower(t.attrs[p][2]) = "hidden"
          /\ Lower(t.attrs[q][1]) = "name" /\ Lower(t.attrs[q][2]) \in CsrfNames

\* /<tag\b[^>]*>[\s\S]*?<\/tag>/gis replaced by '': every opening tag with a
\* closing tag after it is removed together with everything up to the nearest
\* closing tag; scanning resumes after the match.
RECURSIVE RemoveBlocks(_, _)
RemoveBlocks(s, tag) ==
    LET opens == OpenPositions(s, tag)
        closes == ClosePositions(s, tag)
        ok == {p \in opens : \E q \in closes : q > p}
    IN IF ok = {} THEN s
       ELSE LET p == Least(ok)
                q == Least({c \in closes : c > p})
            IN SubSeq(s, 1, p - 1) \o RemoveBlocks(SubSeq(s, q + 1, Len(s)), tag)

\* out.replace(/\s+/g, ' '): every run of whitespace becomes one space.
RECURSIVE CollapseWs(_)
CollapseWs(s) ==
    IF s = <<>> THEN <<>>
    ELSE IF Head(s).kind = "ws"
         THEN IF Len(s) > 1 /\ s[2].kind = "ws"
              THEN CollapseWs(Tail(s))
              ELSE <<Ws(" ")>> \o CollapseWs(Tail(s))
         ELSE <<Head(s)>> \o CollapseWs(Tail(s))

\* String.prototype.trim on a collapsed string: at most one space at each end.
Trim(s) ==
    LET a == IF s # <<>> /\ s[1].kind = "ws" THEN 2 ELSE 1
        b == IF s # <<>> /\ s[Len(s)].kind = "ws" THEN Len(s) - 1 ELSE Len(s)
    IN SubSeq(s, a, b)

sanitizeDynamicContent(content) ==
    LET o1 == SelectSeq(content, LAMBDA t : ~IsCsrfInput(t))
        o2 == SelectSeq(o1, LAMBDA t : t.kind # "comment")
        o3 == RemoveBlocks(o2, "script")
        o4 == RemoveBlocks(o3, "style")
    IN Trim(CollapseWs(o4))

\* getComparableContent after the fetch: the body when present, else the whole
\* document, sanitized.
ComparableContent(html) ==
    LET body == extractBody(html)
        content == IF body # Null THEN body[1] ELSE html
    IN sanitizeDynamicContent(content)

\* SHA-256 as lowercase hex: a fixed-length, never empty digest; distinct
\* contents are taken to have distinct digests (collision freedom).
sha256Hex(input) == <<"sha256", input>>

\* new Date().toISOString() at clock value c.
toISOString(c) == <<"iso", c>>

\* ------------------------------------------------------------ configuration
\* The lists of watched URLs the process can be configured with.
UrlA == "https://a.example"
UrlB == "https://b.example"
TargetLists == {<<UrlA>>, <<UrlA, UrlB>>}
Invs == 1..MaxChecks

\* The WATCH_URLS setting: unset, or a string of characters (letters of a url,
\* the comma, the blank).
EnvChars == {"a", "b", ",", " "}
Unset == [set |-> FALSE, value |-> <<>>]
WatchUrlsSettings ==
    {Unset} \cup {[set |-> TRUE, value |-> s] : s \in UNION {[1..k -> EnvChars] : k \in 0..MaxEnvLen}}

\* String.prototype.split(','): the pieces between the commas, empty ones
\* included; one piece more than there are commas.
RECURSIVE Split(_)
Split(s) ==
    LET commas == {p \in 1..Len(s) : s[p] = ","}
    IN IF commas = {} THEN <<s>>
       ELSE LET p == CHOOSE x \in commas : \A y \in commas : x <= y
            IN <<SubSeq(s, 1, p - 1)>> \o Split(SubSeq(s, p + 1, Len(s)))

\* String.prototype.trim: the blanks at both ends are dropped.
RECURSIVE TrimStr(_)
TrimStr(s) ==
    IF s = <<>> THEN s
    ELSE IF Head(s) = " " THEN TrimStr(Tail(s))
    ELSE IF s[Len(s)] = " " THEN TrimStr(SubSeq(s, 1, Len(s) - 1))
    ELSE s

\* Mutant: a repeated entry is kept at its last occurrence.
RECURSIVE Dedupe_KeepLast(_)
Dedupe_KeepLast(list) ==
    IF list = <<>> THEN <<>>
    ELSE IF \E p \in 2..Len(list) : list[p] = Head(list)
         THEN Dedupe_KeepLast(Tail(list))
         ELSE <<Head(list)>> \o Dedupe_KeepLast(Tail(list))

\* Array.from(new Set(list)): each value once, in order of first insertion.
RECURSIVE Dedupe(_)
Dedupe(list) ==
    IF list = <<>> THEN <<>>
    ELSE LET last == list[Len(list)]
             front == Dedupe(SubSeq(list, 1, Len(list) - 1))
         IN IF \E p \in 1..Len(front) : front[p] = last THEN front ELSE front \o <<last>>

\* The previous single url, used when WATCH_URLS gives no entry.
DefaultTarget == <<"https://capybarabr.com/application">>

\* CONFIG.TARGET_URLS computed from the WATCH_URLS setting.
TargetUrlsFrom(env) ==
    IF ~env.set THEN <<DefaultTarget>>
    ELSE LET pieces == Split(env.value)
             trimmed == [p \in 1..Len(pieces) |-> TrimStr(pieces[p])]
             fromEnv == SelectSeq(trimmed, LAMBDA e : e # <<>>)
         IN IF Len(fromEnv) > 0 THEN Dedupe(fromEnv) ELSE <<DefaultTarget>>

\* Remote documents the watched sites can serve.  DocA and DocA2 differ only in
\* whitespace, a comment and the value of a CSRF hidden input.
DocA == <<Open("body", <<>>), Text("v1"), Close("body")>>
DocA2 == <<Open("html", <<>>), Open("body", <<>>), Ws("\n"), Ws(" "), Text("v1"),
           Comment("build 7"),
           Open("input", <<Attr("type", "hidden"), Attr("name", "_token"), Attr("value", "x9")>>),
           Close("body")>>
DocB == <<Open("body", <<>>), Text("v2"), Close("body")>>
Docs == {DocA, DocA2, DocB}

\* Tokens of the documents given to the normalizer on its own: text, blank,
\* comment, the body tags, and a hidden anti-forgery input written type first
\* (upper case) and name first (lower case).
CsrfTypeFirst(v) ==
    Open("INPUT", <<Attr("TYPE", "HIDDEN"), Attr("NAME", "CSRF_TOKEN"), Attr("value", v)>>)
CsrfNameFirst(v) ==
    Open("input", <<Attr("name", "_token"), Attr("type", "hidden"), Attr("value", v)>>)
NormToks ==
    {Text("v1"), Text("v2"), Ws(" "), Comment("c1"), Open("BODY", <<>>), Close("body"),
     CsrfTypeFirst("x1"), CsrfNameFirst("x1")}
SeqsUpTo(S, n) == UNION {[1..k -> S] : k \in 0..n}
NormDocs == SeqsUpTo(NormToks, MaxDocLen)

\* ------------------------------------------------------------------- store
\* Mutant: the keys do not carry the url, every target shares one triple.
keysFor_Shared(url) ==
    [content |-> <<"watcher", "content">>,
     hash |-> <<"watcher", "hash">>,
     updatedAt |-> <<"watcher", "updatedAt">>]

keysFor(url) ==
    [content |-> <<"watcher", url, "content">>,
     hash |-> <<"watcher", url, "hash">>,
     updatedAt |-> <<"watcher", url, "updatedAt">>]

\* (await kv.get(key)).value on store s: the value, or null when the key is absent.
KvGet(s, key) == IF key \in DOMAIN s THEN s[key] ELSE Null
KvSet(s, key, value) == [k \in (DOMAIN s) \cup {key} |-> IF k = key THEN value ELSE s[k]]

\* Mutant: the timestamp is left out of the commit.
AtomicCommit_NoTimestamp(s, url, content, hash, now) ==
    KvSet(KvSet(s, <<"watcher", url, "content">>, content), <<"watcher", url, "hash">>, hash)

\* Mutant: a commit whose timestamp is older than the stored one keeps the
\* stored timestamp (the three keys are no longer replaced together).
AtomicCommit_KeepNewest(s, url, content, hash, now) ==
    LET old == KvGet(s, <<"watcher", url, "updatedAt">>)
        s2 == KvSet(KvSet(s, <<"watcher", url, "content">>, content),
                    <<"watcher", url, "hash">>, hash)
    IN IF old # Null /\ old[2] > now[2] THEN s2
       ELSE KvSet(s2, <<"watcher", url, "updatedAt">>, now)

\* kv.atomic().set(content).set(hash).set(updatedAt).commit() when it succeeds.
AtomicCommit(s, url, content, hash, now) ==
    LET k == keysFor(url)
    IN KvSet(KvSet(KvSet(s, k.content, content), k.hash, hash), k.updatedAt, now)

\* ------------------------------------------------------------------- state
VARIABLES
    config,  \* CONFIG: token and admin id present or not, the target list
    kv,      \* Deno KV: key -> value, for the keys that are set
    clock,   \* wall clock at its last reading
    inv,     \* per invocation of checkSiteAndMaybeNotify: pc, results; ghosts:
             \* after (invocations that had returned at its start), before (the
             \* store at its start); for an invocation made by the GET / or
             \* /health handler: http (position of the handler), targets (the
             \* entries of its Promise.all), response
    task     \* per invocation and target index: the locals of checkOne

vars == <<config, kv, clock, inv, task>>

\* CONFIG.TARGET_URLS and its indices.
TARGET_URLS == config.urls
Idx == 1..Len(TARGET_URLS)

\* The store a process can find at start: Deno KV outlives the process, so each
\* target is either cold or holds what an earlier check of DocA committed.
StoredBefore(W) ==
    [k \in {<<"watcher", u, f>> : u \in W, f \in {"content", "hash", "updatedAt"}} |->
        CASE k[3] = "content" -> ComparableContent(DocA)
          [] k[3] = "hash" -> sha256Hex(ComparableContent(DocA))
          [] k[3] = "updatedAt" -> toISOString(0)]

\* The locals of one checkOne call.  Ghost fields: fetched (the raw document),
\* commits (commit attempts), commitOk, notify (what notifyAdmin did), msg (the
\* message notifyAdmin was called with), fault (the await that failed), wrote
\* (the target's stored state right after this check's commit), seq (the rank
\* of this check's commit among the commits to its target).
NoTask ==
    [pc |-> "idle", fetched |-> Null, content |-> Null, hash |-> Null,
     cachedHash |-> Null, now |-> Null, commits |-> 0, commitOk |-> FALSE,
     notify |-> "none", msg |-> Null, result |-> Null,
     fault |-> "", wrote |-> Null, seq |-> 0]

Init ==
    /\ config \in [token : BOOLEAN, admin : BOOLEAN, urls : TargetLists]
    /\ \E W \in SUBSET {config.urls[i] : i \in 1..Len(config.urls)} : kv = StoredBefore(W)
    /\ clock = 0
    /\ inv = [j \in Invs |-> [pc |-> "idle", results |-> <<>>, after |-> {}, before |-> <<>>,
                              http |-> "none", targets |-> <<>>, response |-> Null]]
    /\ task = [j \in Invs |-> [i \in 1..Len(config.urls) |-> NoTask]]

\* ---------------------------------------------------------------- checkOne
\* Mutant: the error text is not carried into the result.
ErrorResult_NoMessage(url, message) ==
    [url |-> url, changed |-> "null", status |-> "error", hash |-> Null,
     previousHash |-> Null, updatedAt |-> Null, error |-> Null]

\* The catch of checkOne: the result for a failed check.
ErrorResult(url, message) ==
    [url |-> url, changed |-> "null", status |-> "error", hash |-> Null,
     previousHash |-> Null, updatedAt |-> Null, error |-> message]

OkResult(url, changed, status, hash, previousHash, updatedAt) ==
    [url |-> url, changed |-> changed, status |-> status, hash |-> hash,
     previousHash |-> previousHash, updatedAt |-> updatedAt, error |-> Null]

ChangeMessage(url) == <<"Url Watcher: o conteudo de ", url, " mudou.">>

SetTask(j, i, t) == task' = [task EXCEPT ![j][i] = t]

\* Mutant: the error is not caught; the check never produces a result.
CaughtTask_Uncaught(t, url, message) ==
    [t EXCEPT !.pc = "thrown", !.fault = t.pc]

\* catch (err) of checkOne, entered from the await t.pc.
CaughtTask(t, url, message) ==
    [t EXCEPT !.pc = "done", !.fault = t.pc, !.result = ErrorResult(url, message)]
Caught(j, i, message) == SetTask(j, i, CaughtTask(task[j][i], TARGET_URLS[i], message))

\* The three stored fields of a target in store s.
StoredState(s, url) ==
    [content |-> KvGet(s, keysFor(url).content),
     hash |-> KvGet(s, keysFor(url).hash),
     updatedAt |-> KvGet(s, keysFor(url).updatedAt)]

\* checkSiteAndMaybeNotify up to its await: every checkOne runs to its fetch.
Start(j) ==
    /\ inv[j].pc = "idle"
    /\ j > 1 => inv[j - 1].pc # "idle"
    /\ Len(TARGET_URLS) * (Cardinality({k \in Invs : inv[k].pc # "idle"}) + 1) <= MaxChecks
    /\ inv' = [inv EXCEPT ![j] = [pc |-> "running", results |-> <<>>,
                                  after |-> {k \in Invs : inv[k].pc = "returned"},
                                  before |-> kv,
                                  http |-> "none", targets |-> <<>>, response |-> Null]]
    /\ task' = [task EXCEPT ![j] = [i \in Idx |-> [NoTask EXCEPT !.pc = "fetch"]]]
    /\ UNCHANGED <<config, kv, clock>>

\* fetchHtml resolves with the document the site serves at that moment (any
\* of Docs: the site changes on its own); extractBody, sanitizeDynamicContent and sha256Hex follow.
FetchOk(j, i) ==
    /\ task[j][i].pc = "fetch"
    /\ \E html \in Docs :
       LET content == ComparableContent(html)
       IN SetTask(j, i, [task[j][i] EXCEPT !.pc = "getCachedHash", !.fetched = html,
                                           !.content = content,
                                           !.hash = sha256Hex(content)])
    /\ UNCHANGED <<config, kv, clock, inv>>

\* fetch rejects (transport) or the response is not ok.
FetchErrors == {"Fetch failed with status 500", "network error"}

\* Mutant: the fetch error escapes checkOne and aborts the checks of the batch
\* that are still running (a fail-fast join).
FetchFail_Abort(j, i) ==
    /\ task[j][i].pc = "fetch"
    /\ \E message \in FetchErrors :
          task' = [task EXCEPT ![j] = [x \in Idx |->
                     IF x = i THEN CaughtTask(task[j][x], TARGET_URLS[x], message)
                     ELSE IF task[j][x].pc = "done" THEN task[j][x]
                     ELSE [task[j][x] EXCEPT !.pc = "done",
                                             !.result = ErrorResult(TARGET_URLS[x], message)]]]
    /\ UNCHANGED <<config, kv, clock, inv>>

\* Mutant: a failed fetch drops the stored state of the target.
FetchFail_Forget(j, i) ==
    /\ task[j][i].pc = "fetch"
    /\ \E message \in FetchErrors : Caught(j, i, message)
    /\ kv' = [k \in {x \in DOMAIN kv : x[2] # TARGET_URLS[i]} |-> kv[k]]
    /\ UNCHANGED <<config, clock, inv>>

FetchFail(j, i) ==
    /\ task[j][i].pc = "fetch"
    /\ \E message \in FetchErrors : Caught(j, i, message)
    /\ UNCHANGED <<config, kv, clock, inv>>

\* Mutant: the commit is issued on every branch, the unchanged one included.
GetCachedHashOk_AlwaysCommit(j, i) ==
    /\ task[j][i].pc = "getCachedHash"
    /\ \E c \in clock..MaxClock :
          /\ clock' = c
          /\ SetTask(j, i, [task[j][i] EXCEPT
                               !.pc = "setCache",
                               !.cachedHash = KvGet(kv, keysFor(TARGET_URLS[i]).hash),
                               !.now = toISOString(c)])
    /\ UNCHANGED <<config, kv, inv>>

\* getCachedHash resolves; the branch is taken and, on the cold and changed
\* branches, setCache takes its timestamp (new Date(): the clock has not gone
\* back since it was last read) and issues the commit.
GetCachedHashOk(j, i) ==
    /\ task[j][i].pc = "getCachedHash"
    /\ LET t == task[j][i]
           cachedHash == KvGet(kv, keysFor(TARGET_URLS[i]).hash)
       IN IF cachedHash = Null \/ cachedHash # t.hash
          THEN \E c \in clock..MaxClock :
                  /\ clock' = c
                  /\ SetTask(j, i, [t EXCEPT !.pc = "setCache", !.cachedHash = cachedHash,
                                              !.now = toISOString(c)])
          ELSE /\ SetTask(j, i, [t EXCEPT !.pc = "readUpdatedAt", !.cachedHash = cachedHash])
               /\ UNCHANGED clock
    /\ UNCHANGED <<config, kv, inv>>

KvGetError == "kv get failed"
GetCachedHashFail(j, i) ==
    /\ task[j][i].pc = "getCachedHash"
    /\ Caught(j, i, KvGetError)
    /\ UNCHANGED <<config, kv, clock, inv>>

\* Commits made so far to target i by the checks of this run.
CommitsTo(i) == Cardinality({k \in Invs : task[k][i].commitOk})

\* Mutant: notifyAdmin is called after every commit, the first one included.
SetCacheOk_AlwaysNotify(j, i) ==
    /\ task[j][i].pc = "setCache"
    /\ LET t == task[j][i]
           url == TARGET_URLS[i]
           store == AtomicCommit(kv, url, t.content, t.hash, t.now)
       IN /\ kv' = store
          /\ SetTask(j, i, [t EXCEPT !.commits = @ + 1, !.commitOk = TRUE,
                                     !.wrote = StoredState(store, url),
                                     !.seq = CommitsTo(i) + 1,
                                     !.pc = "notify", !.msg = ChangeMessage(url)])
    /\ UNCHANGED <<config, clock, inv>>

\* The atomic commit of setCache succeeds: the three keys are replaced at once.
\* On the changed branch notifyAdmin is called next.
SetCacheOk(j, i) ==
    /\ task[j][i].pc = "setCache"
    /\ LET t == task[j][i]
           url == TARGET_URLS[i]
           store == AtomicCommit(kv, url, t.content, t.hash, t.now)
           u == [t EXCEPT !.commits = @ + 1, !.commitOk = TRUE,
                          !.wrote = StoredState(store, url),
                          !.seq = CommitsTo(i) + 1]
       IN /\ kv' = store
          /\ IF t.cachedHash = Null
             THEN SetTask(j, i, [u EXCEPT !.pc = "readUpdatedAt"])
             ELSE SetTask(j, i, [u EXCEPT !.pc = "notify", !.msg = ChangeMessage(url)])
    /\ UNCHANGED <<config, clock, inv>>

\* The commit reports ok = false and setCache throws: nothing is written.
CommitErrors == {"KV atomic set failed"}

\* Mutant: the failed commit has written the content key before failing.
SetCacheFail_Partial(j, i) ==
    /\ task[j][i].pc = "setCache"
    /\ kv' = KvSet(kv, keysFor(TARGET_URLS[i]).content, task[j][i].content)
    /\ \E message \in CommitErrors :
          SetTask(j, i, CaughtTask([task[j][i] EXCEPT !.commits = @ + 1],
                                   TARGET_URLS[i], message))
    /\ UNCHANGED <<config, clock, inv>>

\* Mutant: the failed commit is attempted a second time before giving up.
SetCacheFail_Retry(j, i) ==
    /\ task[j][i].pc = "setCache"
    /\ \E message \in CommitErrors :
          SetTask(j, i, CaughtTask([task[j][i] EXCEPT !.commits = @ + 2],
                                   TARGET_URLS[i], message))
    /\ UNCHANGED <<config, kv, clock, inv>>

\* Mutant: the failure of the commit is swallowed and the changed branch goes on
\* to notifyAdmin.
SetCacheFail_NotifyAnyway(j, i) ==
    /\ task[j][i].pc = "setCache"
    /\ LET t == [task[j][i] EXCEPT !.commits = @ + 1]
       IN IF t.cachedHash = Null
          THEN \E message \in CommitErrors : SetTask(j, i, CaughtTask(t, TARGET_URLS[i], message))
          ELSE SetTask(j, i, [t EXCEPT !.pc = "notify", !.msg = ChangeMessage(TARGET_URLS[i])])
    /\ UNCHANGED <<config, kv, clock, inv>>

SetCacheFail(j, i) ==
    /\ task[j][i].pc = "setCache"
    /\ \E message \in CommitErrors :
          SetTask(j, i, CaughtTask([task[j][i] EXCEPT !.commits = @ + 1],
                                   TARGET_URLS[i], message))
    /\ UNCHANGED <<config, kv, clock, inv>>

\* notifyAdmin: skipped without token or admin id; otherwise one sendMessage,
\* whose failure is caught and logged.
NotifyOutcomes(cfg) ==
    IF ~cfg.token THEN {"skipped"}
    ELSE IF ~cfg.admin THEN {"skipped"}
    ELSE {"delivered", "failed"}

\* Mutant: when the message is not delivered the stored fingerprint is put back
\* to the previous one, so that a later check detects the change again.
Notify_RollbackUndelivered(j, i) ==
    /\ task[j][i].pc = "notify"
    /\ \E outcome \in NotifyOutcomes(config) :
          /\ SetTask(j, i, [task[j][i] EXCEPT !.pc = "readUpdatedAt", !.notify = outcome])
          /\ kv' = IF outcome = "delivered" THEN kv
                   ELSE KvSet(kv, <<"watcher", TARGET_URLS[i], "hash">>, task[j][i].cachedHash)
    /\ UNCHANGED <<config, clock, inv>>

Notify(j, i) ==
    /\ task[j][i].pc = "notify"
    /\ \E outcome \in NotifyOutcomes(config) :
          SetTask(j, i, [task[j][i] EXCEPT !.pc = "readUpdatedAt", !.notify = outcome])
    /\ UNCHANGED <<config, kv, clock, inv>>

\* The read of updatedAt resolves and checkOne returns its result.
CheckResult(t, url, updatedAt) ==
    IF t.cachedHash = Null
    THEN OkResult(url, "null", "initialized", t.hash, Null, updatedAt)
    ELSE IF t.cachedHash # t.hash
    THEN OkResult(url, "true", "changed", t.hash, t.cachedHash, updatedAt)
    ELSE OkResult(url, "false", "unchanged", t.hash, t.cachedHash, updatedAt)

\* Mutant: the timestamp reported is the one the store held when the invocation
\* started, not the one read back.
ReadUpdatedAtOk_Stale(j, i) ==
    /\ task[j][i].pc = "readUpdatedAt"
    /\ LET url == TARGET_URLS[i]
           updatedAt == KvGet(inv[j].before, keysFor(url).updatedAt)
       IN SetTask(j, i, [task[j][i] EXCEPT !.pc = "done",
                                           !.result = CheckResult(task[j][i], url, updatedAt)])
    /\ UNCHANGED <<config, kv, clock, inv>>

ReadUpdatedAtOk(j, i) ==
    /\ task[j][i].pc = "readUpdatedAt"
    /\ LET url == TARGET_URLS[i]
           updatedAt == KvGet(kv, keysFor(url).updatedAt)
       IN SetTask(j, i, [task[j][i] EXCEPT !.pc = "done",
                                           !.result = CheckResult(task[j][i], url, updatedAt)])
    /\ UNCHANGED <<config, kv, clock, inv>>

ReadUpdatedAtFail(j, i) ==
    /\ task[j][i].pc = "readUpdatedAt"
    /\ Caught(j, i, KvGetError)
    /\ UNCHANGED <<config, kv, clock, inv>>

\* ------------------------------------------------- checkSiteAndMaybeNotify
\* Mutant: the failed slots are dropped instead of being kept as error entries.
Settled_DropFailed(j) ==
    SelectSeq([i \in Idx |-> task[j][i].result], LAMBDA r : r.status # "error")

\* settled.map(...): slot idx holds the value of promise idx.  Every promise is
\* fulfilled: each failed await of checkOne throws an Error that its catch
\* turns into a result.
Settled(j) == [i \in Idx |-> task[j][i].result]

Return(j) ==
    /\ inv[j].pc = "running"
    /\ \A i \in Idx : task[j][i].pc = "done"
    /\ inv' = [inv EXCEPT ![j].pc = "returned", ![j].results = Settled(j)]
    /\ UNCHANGED <<config, kv, clock, task>>

Next ==
    \/ \E j \in Invs : Start(j)
    \/ \E j \in Invs, i \in Idx : FetchOk(j, i)
    \/ \E j \in Invs, i \in Idx : FetchFail(j, i)
    \/ \E j \in Invs, i \in Idx : GetCachedHashOk(j, i)
    \/ \E j \in Invs, i \in Idx : GetCachedHashFail(j, i)
    \/ \E j \in Invs, i \in Idx : SetCacheOk(j, i)
    \/ \E j \in Invs, i \in Idx : SetCacheFail(j, i)
    \/ \E j \in Invs, i \in Idx : Notify(j, i)
    \/ \E j \in Invs, i \in Idx : ReadUpdatedAtOk(j, i)
    \/ \E j \in Invs, i \in Idx : ReadUpdatedAtFail(j, i)
    \/ \E j \in Invs : Return(j)

Spec == Init /\ [][Next]_vars

\* ------------------------------------------------------------- progress
\* Length of the longest configured list.
MaxTargets == CHOOSE n \in {Len(l) : l \in TargetLists} : \A l \in TargetLists : Len(l) <= n

\* The pending call of check i of invocation j settles and checkOne runs on to
\* its next await or to its return.  For the fetch the failing settlement
\* stands for both: a fetch that neither returns nor fails leaves FetchFail
\* enabled for ever and never taken.
CheckStep(j, i) ==
    /\ i \in Idx
    /\ \/ FetchFail(j, i)
       \/ GetCachedHashOk(j, i) \/ GetCachedHashFail(j, i)
       \/ SetCacheOk(j, i) \/ SetCacheFail(j, i)
       \/ Notify(j, i)
       \/ ReadUpdatedAtOk(j, i) \/ ReadUpdatedAtFail(j, i)

\* Every fetch, store and notifier call that is pending eventually returns or
\* fails, and the event loop runs the continuation of a settled allSettled.
\* Nothing obliges an invocation to be made.
Fairness ==
    /\ \A j \in Invs : \A i \in 1..MaxTargets : WF_vars(CheckStep(j, i))
    /\ \A j \in Invs : WF_vars(Return(j))

SpecLive == Init /\ [][Next]_vars /\ Fairness

\* ------------------------------------------ the normalizer on any document
\* fetchHtml resolves with any document of NormDocs; extractBody,
\* sanitizeDynamicContent and sha256Hex follow, as in FetchOk.
FetchDoc(j, i) ==
    /\ task[j][i].pc = "fetch"
    /\ \E html \in NormDocs :
       LET content == ComparableContent(html)
       IN SetTask(j, i, [task[j][i] EXCEPT !.pc = "getCachedHash", !.fetched = html,
                                           !.content = content,
                                           !.hash = sha256Hex(content)])
    /\ UNCHANGED <<config, kv, clock, inv>>

\* One target, a store that holds an earlier check of DocA or nothing.
InitNorm ==
    /\ Init
    /\ config.urls = <<UrlA>> /\ config.token /\ config.admin

\* A check up to the fingerprint of the fetched document.
NextNorm ==
    \/ Start(1)
    \/ FetchDoc(1, 1)

SpecNorm == InitNorm /\ [][NextNorm]_vars

\* --------------------------------------------- CONFIG.TARGET_URLS from the environment
\* The process starts with any WATCH_URLS setting (kept in config.env), both
\* Telegram settings present and a cold store.
InitConfig ==
    /\ \E e \in WatchUrlsSettings :
          config = [token |-> TRUE, admin |-> TRUE, urls |-> TargetUrlsFrom(e), env |-> e]
    /\ kv = StoredBefore({})
    /\ clock = 0
    /\ inv = [j \in Invs |-> [pc |-> "idle", results |-> <<>>, after |-> {}, before |-> <<>>,
                              http |-> "none", targets |-> <<>>, response |-> Null]]
    /\ task = [j \in Invs |-> [i \in 1..Len(config.urls) |-> NoTask]]

\* One batch over the configured list, every fetch of which fails.
NextConfig ==
    \/ Start(1)
    \/ \E i \in Idx : FetchFail(1, i)
    \/ Return(1)

SpecConfig == InitConfig /\ [][NextConfig]_vars

\* ------------------------------------------------- createApp: GET / or /health
\* One element of `targets`, built from result r and the timestamp.
TargetEntry(r, updatedAt) == [url |-> r.url, changed |-> r.changed, updatedAt |-> updatedAt]

\* results.map(async (r) => ...): every callback runs to its first await.  A
\* result that carries updatedAt gives its entry at once; for the others
\* (updatedAt null: the error results) kv.get is issued and the entry is pending.
HandlerMap(j) ==
    /\ inv[j].pc = "returned" /\ inv[j].http = "none"
    /\ inv' = [inv EXCEPT ![j].http = "mapping",
                          ![j].targets = [i \in Idx |->
                              IF inv[j].results[i].updatedAt # Null
                              THEN TargetEntry(inv[j].results[i], inv[j].results[i].updatedAt)
                              ELSE Null]]
    /\ UNCHANGED <<config, kv, clock, task>>

\* The kv.get of a pending entry resolves: the stored timestamp, or null.
HandlerGetOk(j, i) ==
    /\ inv[j].http = "mapping" /\ inv[j].targets[i] = Null
    /\ inv' = [inv EXCEPT ![j].targets[i] =
                  TargetEntry(inv[j].results[i], KvGet(kv, keysFor(TARGET_URLS[i]).updatedAt))]
    /\ UNCHANGED <<config, kv, clock, task>>

\* The kv.get of a pending entry rejects: Promise.all rejects and the catch of
\* the middleware answers 500 with the message.
HandlerGetFail(j, i) ==
    /\ inv[j].http = "mapping" /\ inv[j].targets[i] = Null
    /\ inv' = [inv EXCEPT ![j].http = "responded",
                          ![j].response = [status |-> 500, body |-> [message |-> KvGetError]]]
    /\ UNCHANGED <<config, kv, clock, task>>

\* Mutant: the entries of the failed checks are left out of the response.
HandlerRespond_OnlyOk(j) ==
    /\ inv[j].http = "mapping" /\ \A i \in Idx : inv[j].targets[i] # Null
    /\ inv' = [inv EXCEPT ![j].http = "responded",
                          ![j].response = [status |-> 200,
                                           body |-> [ok |-> TRUE,
                                                     targets |-> SelectSeq(inv[j].targets,
                                                        LAMBDA e : e.changed # "null")]]]
    /\ UNCHANGED <<config, kv, clock, task>>

\* Promise.all resolves: 200 with JSON.stringify({ ok: true, targets }).
HandlerRespond(j) ==
    /\ inv[j].http = "mapping" /\ \A i \in Idx : inv[j].targets[i] # Null
    /\ inv' = [inv EXCEPT ![j].http = "responded",
                          ![j].response = [status |-> 200,
                                           body |-> [ok |-> TRUE, targets |-> inv[j].targets]]]
    /\ UNCHANGED <<config, kv, clock, task>>

\* The watcher with the invocations made by the HTTP handler answered.
NextServer ==
    \/ Next
    \/ \E j \in Invs : HandlerMap(j)
    \/ \E j \in Invs, i \in Idx : HandlerGetOk(j, i)
    \/ \E j \in Invs, i \in Idx : HandlerGetFail(j, i)
    \/ \E j \in Invs : HandlerRespond(j)

SpecServer == Init /\ [][NextServer]_vars

\* ================================================================ properties
Statuses == {"initialized", "changed", "unchanged", "error"}
Returned(j) == inv[j].pc = "returned"
\* The check ran to its return without any failed await.
Succeeded(t) == t.pc = "done" /\ t.fault = ""
\* No other invocation overlapped j, or started after it.
Latest(j) == \A k \in Invs \ {j} : inv[k].pc = "idle" \/ k \in inv[j].after
\* j2 started after j1 had returned, and no third invocation overlapped either
\* of them or ran between them.
Consecutive(j1, j2) ==
    /\ j1 \in inv[j2].after
    /\ \A k \in Invs \ {j1, j2} :
          inv[k].pc = "idle" \/ k \in inv[j1].after \/ j2 \in inv[k].after
\* Calls of notifyAdmin made by a check.
Calls(t) == IF t.msg = Null THEN 0 ELSE 1
Contains(message, url) == message # Null /\ \E p \in 1..Len(message) : message[p] = url

\* ----------------------------------------------------------------------- C1
\* C1: whenever checkSiteAndMaybeNotify has returned (it has no failing exit:
\* every task ends in a result, whatever failed and in whatever order), the
\* result list has exactly one entry per configured target and entry i carries
\* the url of target i of CONFIG.TARGET_URLS.
C1_ResultPerTargetInOrder ==
    \A j \in Invs :
       /\ \A i \in Idx : task[j][i].pc = "done" =>
              /\ task[j][i].result # Null
              /\ task[j][i].result.status \in Statuses
       /\ Returned(j) =>
              /\ Len(inv[j].results) = Len(TARGET_URLS)
              /\ \A i \in Idx : inv[j].results[i].url = TARGET_URLS[i]

\* A returned batch of two targets in which the first failed and the second
\* detected a change.
C1_Witness ==
    \E j \in Invs :
       /\ Returned(j) /\ Len(TARGET_URLS) = 2
       /\ inv[j].results[1].status = "error"
       /\ inv[j].results[2].status = "changed"

\* ----------------------------------------------------------------------- C2
\* What a check of target i of invocation j yields when it runs alone on the
\* store the invocation found, for the document and timestamp it got.
AloneResult(j, i) ==
    LET t == task[j][i]
        url == TARGET_URLS[i]
        old == StoredState(inv[j].before, url)
        h == sha256Hex(ComparableContent(t.fetched))
    IN IF old.hash = Null THEN OkResult(url, "null", "initialized", h, Null, t.now)
       ELSE IF old.hash # h THEN OkResult(url, "true", "changed", h, old.hash, t.now)
       ELSE OkResult(url, "false", "unchanged", h, old.hash, old.updatedAt)

AloneStored(j, i) ==
    LET t == task[j][i]
        old == StoredState(inv[j].before, TARGET_URLS[i])
        c == ComparableContent(t.fetched)
    IN IF old.hash = sha256Hex(c) THEN old
       ELSE [content |-> c, hash |-> sha256Hex(c), updatedAt |-> t.now]

\* C2: in a returned batch over at least two targets where the fetch of exactly
\* one target f failed and every other check succeeded, the result has one
\* entry per target in the original order, f's entry is the only one with
\* status error, and every other target has the result and the stored state
\* its check yields when run alone.
C2_FetchFailureIsolated ==
    \A j \in Invs : \A f \in Idx :
       ( /\ Returned(j) /\ Latest(j) /\ Len(TARGET_URLS) >= 2
         /\ task[j][f].fault = "fetch"
         /\ \A i \in Idx \ {f} : task[j][i].fault = "" )
       => /\ Len(inv[j].results) = Len(TARGET_URLS)
          /\ \A i \in Idx : inv[j].results[i].url = TARGET_URLS[i]
          /\ {i \in Idx : inv[j].results[i].status = "error"} = {f}
          /\ \A i \in Idx \ {f} :
                /\ inv[j].results[i] = AloneResult(j, i)
                /\ StoredState(kv, TARGET_URLS[i]) = AloneStored(j, i)

\* The first target's fetch failed, the second target's check found a change
\* and committed it.
C2_Witness ==
    \E j \in Invs :
       /\ Returned(j) /\ Latest(j) /\ Len(TARGET_URLS) = 2
       /\ task[j][1].fault = "fetch"
       /\ task[j][2].fault = ""
       /\ inv[j].results[2].status = "changed"
       /\ StoredState(kv, TARGET_URLS[2]).content = ComparableContent(DocB)

\* ----------------------------------------------------------------------- C3
\* C3: for a target with no stored state, two consecutive successful checks
\* that fetch documents with different normalized content return initialized
\* and then changed, and notifyAdmin is called exactly once across both, with
\* a message that contains the target's URL.
C3_ColdThenChangedNotifiesOnce ==
    \A j1 \in Invs : \A j2 \in Invs : \A i \in Idx :
       ( /\ Consecutive(j1, j2)
         /\ Succeeded(task[j1][i]) /\ Succeeded(task[j2][i])
         /\ StoredState(inv[j1].before, TARGET_URLS[i]).hash = Null
         /\ ComparableContent(task[j1][i].fetched) # ComparableContent(task[j2][i].fetched) )
       => /\ task[j1][i].result.status = "initialized"
          /\ task[j2][i].result.status = "changed"
          /\ Calls(task[j1][i]) + Calls(task[j2][i]) = 1
          /\ Contains(task[j2][i].msg, TARGET_URLS[i])

\* DocA then DocB on a cold target, both checks successful.
C3_Witness ==
    \E j1 \in Invs : \E j2 \in Invs : \E i \in Idx :
       /\ Consecutive(j1, j2)
       /\ Succeeded(task[j1][i]) /\ Succeeded(task[j2][i])
       /\ StoredState(inv[j1].before, TARGET_URLS[i]).hash = Null
       /\ task[j1][i].fetched = DocA /\ task[j2][i].fetched = DocB
       /\ task[j2][i].notify = "delivered"

\* ----------------------------------------------------------------------- C4
\* C4: a successful check that found no stored fingerprint returns initialized,
\* has made exactly one commit, which stored the normalized content, its
\* fingerprint and the timestamp together, and has not called notifyAdmin.
C4_ColdStartInitializes ==
    \A j \in Invs : \A i \in Idx :
       LET t == task[j][i] IN
       (Succeeded(t) /\ t.cachedHash = Null)
       => /\ t.result.status = "initialized"
          /\ t.commits = 1 /\ t.commitOk
          /\ t.wrote = [content |-> ComparableContent(t.fetched),
                        hash |-> sha256Hex(ComparableContent(t.fetched)),
                        updatedAt |-> t.now]
          /\ t.now # Null
          /\ t.msg = Null /\ t.notify = "none"

\* A successful cold check of DocA2 (which normalization changes).
C4_Witness ==
    \E j \in Invs : \E i \in Idx :
       /\ Succeeded(task[j][i]) /\ task[j][i].cachedHash = Null
       /\ task[j][i].fetched = DocA2
       /\ StoredState(kv, TARGET_URLS[i]).hash = sha256Hex(<<Text("v1")>>)

\* ----------------------------------------------------------------------- C5
\* The check read a stored fingerprint equal to the new one.
FoundEqual(t) == t.cachedHash # Null /\ t.cachedHash = t.hash

\* C5 as stated: a check that finds the new fingerprint equal to the stored one
\* returns unchanged, having made no store write and no notifyAdmin call.
C5_AsStated ==
    \A j \in Invs : \A i \in Idx :
       LET t == task[j][i] IN
       (t.pc = "done" /\ FoundEqual(t))
       => t.result.status = "unchanged" /\ t.commits = 0 /\ t.msg = Null

\* C5 amended: a check that finds the new fingerprint equal to the stored one
\* makes no commit and no notifyAdmin call, and returns unchanged, or error
\* when its last read of updatedAt fails; and when a check follows a successful
\* check that fetched the same document, it finds the fingerprints equal and
\* the target's stored content, fingerprint and timestamp stay what they were
\* after the first check.
C5_UnchangedWritesNothing ==
    /\ \A j \in Invs : \A i \in Idx :
          LET t == task[j][i] IN
          (t.pc = "done" /\ FoundEqual(t))
          => /\ t.commits = 0 /\ t.wrote = Null
             /\ t.msg = Null /\ t.notify = "none"
             /\ t.fault \in {"", "readUpdatedAt"}
             /\ t.fault = "" => t.result.status = "unchanged"
             /\ t.fault = "readUpdatedAt" => t.result.status = "error"
    /\ \A j1 \in Invs : \A j2 \in Invs : \A i \in Idx :
          ( /\ Consecutive(j1, j2) /\ Latest(j2)
            /\ Succeeded(task[j1][i])
            /\ task[j2][i].pc = "done"
            /\ task[j2][i].fault \notin {"fetch", "getCachedHash"}
            /\ task[j1][i].fetched = task[j2][i].fetched )
          => /\ FoundEqual(task[j2][i])
             /\ StoredState(kv, TARGET_URLS[i]) = StoredState(inv[j2].before, TARGET_URLS[i])
             /\ StoredState(kv, TARGET_URLS[i]).hash # Null

\* Two consecutive successful checks of the same document; the second returned
\* unchanged.
C5_Witness ==
    \E j1 \in Invs : \E j2 \in Invs : \E i \in Idx :
       /\ Consecutive(j1, j2) /\ Latest(j2)
       /\ Succeeded(task[j1][i]) /\ Succeeded(task[j2][i])
       /\ task[j1][i].result.status = "initialized"
       /\ task[j1][i].fetched = task[j2][i].fetched
       /\ task[j2][i].result.status = "unchanged"

\* ----------------------------------------------------------------------- C6
\* C6: in every reachable state of the store, for every target, the keys
\* content, hash and updatedAt are all absent or all present (and then hold
\* values), also after a commit that failed.
C6_AllOrNothing ==
    \A i \in Idx :
       LET k == keysFor(TARGET_URLS[i])
           present == {k.content, k.hash, k.updatedAt} \cap DOMAIN kv
           st == StoredState(kv, TARGET_URLS[i])
       IN /\ present = {} \/ present = {k.content, k.hash, k.updatedAt}
          /\ present # {} => st.hash # Null /\ st.updatedAt # Null

\* A commit over existing state has failed and the target still holds the
\* complete earlier state.
C6_Witness ==
    \E j \in Invs : \E i \in Idx :
       /\ task[j][i].fault = "setCache"
       /\ task[j][i].cachedHash # Null
       /\ StoredState(kv, TARGET_URLS[i]).hash = task[j][i].cachedHash
       /\ StoredState(kv, TARGET_URLS[i]).updatedAt # Null

\* ----------------------------------------------------------------------- C7
\* C7: a check whose fetch failed returns error with the text of the fetch
\* error, has made no commit and no notifyAdmin call, and (no other invocation
\* running) the target's stored state is what it was when the check started.
C7_FetchFailureNoEffect ==
    \A j \in Invs : \A i \in Idx :
       LET t == task[j][i] IN
       t.fault = "fetch"
       => /\ t.pc = "done"
          /\ t.result.status = "error"
          /\ t.result.error \in FetchErrors
          /\ t.commits = 0 /\ t.wrote = Null
          /\ t.msg = Null /\ t.notify = "none"
          /\ Latest(j) =>
                StoredState(kv, TARGET_URLS[i]) = StoredState(inv[j].before, TARGET_URLS[i])

\* A non-2xx response for a target that holds stored state.
C7_Witness ==
    \E j \in Invs : \E i \in Idx :
       /\ task[j][i].fault = "fetch"
       /\ task[j][i].result.error = "Fetch failed with status 500"
       /\ StoredState(kv, TARGET_URLS[i]).hash # Null

\* ----------------------------------------------------------------------- C8
\* C8: a check whose commit failed returns error with the text of the commit
\* error, has attempted the commit exactly once, has not called notifyAdmin,
\* and (no other invocation running) the target's stored state is what it was
\* when the check started.
C8_CommitFailureReported ==
    \A j \in Invs : \A i \in Idx :
       LET t == task[j][i] IN
       t.fault = "setCache"
       => /\ t.pc = "done"
          /\ t.result.status = "error"
          /\ t.result.error \in CommitErrors
          /\ t.commits = 1 /\ ~t.commitOk /\ t.wrote = Null
          /\ t.msg = Null
          /\ Latest(j) =>
                StoredState(kv, TARGET_URLS[i]) = StoredState(inv[j].before, TARGET_URLS[i])

\* The commit of a detected change failed: the earlier state is still stored.
C8_Witness ==
    \E j \in Invs : \E i \in Idx :
       /\ task[j][i].fault = "setCache"
       /\ task[j][i].cachedHash # Null
       /\ task[j][i].hash # task[j][i].cachedHash
       /\ Latest(j)
       /\ StoredState(kv, TARGET_URLS[i]).hash = task[j][i].cachedHash

\* ----------------------------------------------------------------------- C9
\* C9: a check that detected a change, committed it and whose notification
\* delivery failed returns changed, and the committed content, fingerprint and
\* timestamp stay in the store.
C9_NotifyFailureKeepsChanged ==
    \A j \in Invs : \A i \in Idx :
       LET t == task[j][i] IN
       (t.pc = "done" /\ t.commitOk /\ t.cachedHash # Null /\ t.notify = "failed")
       => /\ t.result.status = "changed"
          /\ Latest(j) => StoredState(kv, TARGET_URLS[i]) = t.wrote

\* ---------------------------------------------------------------------- C10
\* C10: with the token or the admin id missing, a notifyAdmin call skips the
\* delivery without failing, and the check that made it (it detected a change
\* and committed the new state) returns changed.
C10_UnconfiguredKeepsChanged ==
    \A j \in Invs : \A i \in Idx :
       LET t == task[j][i] IN
       ((~config.token \/ ~config.admin) /\ t.pc = "done" /\ t.msg # Null)
       => /\ t.notify = "skipped"
          /\ t.commitOk
          /\ t.result.status = "changed"

\* ---------------------------------------------------------------------- C11
\* C11: a check that has called notifyAdmin (it waits on sendMessage, or the
\* call has been skipped, delivered or has failed) has before that, in the
\* same checkOne call and for the same url, made exactly one commit attempt,
\* which succeeded and stored the fetched content and its fingerprint; the
\* message names that url.  No notification follows a failed commit or comes
\* before the commit.
C11_NotifyAfterCommit ==
    \A j \in Invs : \A i \in Idx :
       LET t == task[j][i]
       IN (t.pc = "notify" \/ t.msg # Null \/ t.notify # "none") =>
             /\ t.commits = 1 /\ t.commitOk
             /\ t.wrote # Null
             /\ t.wrote.content = t.content /\ t.wrote.hash = t.hash
             /\ t.wrote.hash = sha256Hex(ComparableContent(t.fetched))
             /\ t.cachedHash # Null /\ t.cachedHash # t.hash
             /\ Contains(t.msg, TARGET_URLS[i])

\* A change was committed and its notification delivered, while another check
\* of the run failed at its commit and notified nobody.
C11_Witness ==
    \E j \in Invs : \E i \in Idx :
       /\ task[j][i].notify = "delivered" /\ task[j][i].commitOk
       /\ \E k \in Invs : \E x \in 1..Len(TARGET_URLS) :
             /\ task[k][x].fault = "setCache" /\ task[k][x].cachedHash # Null
             /\ task[k][x].msg = Null

\* ---------------------------------------------------------------------- C12
\* C12: in every returned batch the number of notifyAdmin calls equals the
\* number of results with status 'changed': target i was notified about (once,
\* with a message naming its url) exactly when result i is 'changed'.
C12_CallsEqualChanged ==
    \A j \in Invs : Returned(j) =>
       /\ Cardinality({i \in Idx : Calls(task[j][i]) = 1})
             = Cardinality({i \in Idx : inv[j].results[i].status = "changed"})
       /\ \A i \in Idx :
             IF inv[j].results[i].status = "changed"
             THEN Calls(task[j][i]) = 1 /\ Contains(task[j][i].msg, TARGET_URLS[i])
             ELSE Calls(task[j][i]) = 0

\* ---------------------------------------------------------------------- C13
\* Two invocations overlap when neither had returned before the other started.
Overlap(j1, j2) ==
    /\ j1 # j2 /\ inv[j1].pc # "idle" /\ inv[j2].pc # "idle"
    /\ j1 \notin inv[j2].after /\ j2 \notin inv[j1].after
\* What the commit of check t stores: its content, fingerprint and timestamp.
Committed(t) == [content |-> t.content, hash |-> t.hash, updatedAt |-> t.now]

\* C13: in every reachable state, overlapping invocations included, the three
\* stored fields of a target are all absent or all present, the stored
\* fingerprint is the fingerprint of the stored content, and the stored state
\* is exactly what the commit made last to that target wrote (what the process
\* found at start when no commit was made yet); so it is after all
\* invocations have finished.
C13_StoreFromLastCommit ==
    \A i \in Idx :
       LET st == StoredState(kv, TARGET_URLS[i])
           committers == {k \in Invs : task[k][i].commitOk}
       IN /\ (st.content = Null /\ st.hash = Null /\ st.updatedAt = Null)
             \/ (st.content # Null /\ st.hash = sha256Hex(st.content) /\ st.updatedAt # Null)
          /\ \A k \in committers :
                /\ task[k][i].seq \in 1..Cardinality(committers)
                /\ \A k2 \in committers \ {k} : task[k2][i].seq # task[k][i].seq
          /\ \A k \in committers :
                task[k][i].seq = Cardinality(committers) => st = Committed(task[k][i])
          /\ committers = {} =>
                \A k \in Invs : inv[k].pc # "idle" => st = StoredState(inv[k].before, TARGET_URLS[i])

\* Two overlapping invocations both committed to the same target, with different
\* contents and the later commit carrying the older timestamp; both have
\* returned.
C13_Witness ==
    \E j1, j2 \in Invs :
       /\ Overlap(j1, j2) /\ Returned(j1) /\ Returned(j2)
       /\ task[j1][1].seq = 1 /\ task[j2][1].seq = 2
       /\ task[j1][1].content # task[j2][1].content
       /\ task[j2][1].now[2] < task[j1][1].now[2]
       /\ StoredState(kv, TARGET_URLS[1]) = Committed(task[j2][1])

\* ---------------------------------------------------------------------- C14
\* The store keys of a url, written out.
OwnKeys(url) == {<<"watcher", url, f>> : f \in {"content", "hash", "updatedAt"}}

\* C14: every step of the check of target i of an invocation (a step that
\* changes the locals of that checkOne call after its start) changes no store
\* key other than the three keys of target i, so the stored content,
\* fingerprint and timestamp of every other configured target are the same
\* before and after the step; and what the step reads from the store (the
\* cached fingerprint, the timestamp read back) is the value under target i's own
\* keys.  The checks of a batch interleave freely.
C14_FrameOtherTargets ==
    [][\A j \in Invs : \A i \in Idx :
          (task'[j][i] # task[j][i] /\ inv'[j] = inv[j]) =>
             LET url == TARGET_URLS[i]
                 t == task[j][i]
                 u == task'[j][i]
             IN /\ \A k \in (DOMAIN kv) \cup (DOMAIN kv') :
                      KvGet(kv', k) # KvGet(kv, k) => k \in OwnKeys(url)
                /\ \A x \in Idx \ {i} :
                      /\ KvGet(kv', <<"watcher", TARGET_URLS[x], "content">>)
                            = KvGet(kv, <<"watcher", TARGET_URLS[x], "content">>)
                      /\ KvGet(kv', <<"watcher", TARGET_URLS[x], "hash">>)
                            = KvGet(kv, <<"watcher", TARGET_URLS[x], "hash">>)
                      /\ KvGet(kv', <<"watcher", TARGET_URLS[x], "updatedAt">>)
                            = KvGet(kv, <<"watcher", TARGET_URLS[x], "updatedAt">>)
                /\ (t.pc = "getCachedHash" /\ u.fault = "") =>
                      u.cachedHash = KvGet(kv, <<"watcher", url, "hash">>)
                /\ (t.pc = "readUpdatedAt" /\ u.fault = "") =>
                      u.result.updatedAt = KvGet(kv, <<"watcher", url, "updatedAt">>)
      ]_vars

\* A batch over two targets in which both checks committed, different contents,
\* while the other was still running; each target holds its own check's commit.
C14_Witness ==
    \E j \in Invs :
       /\ Len(TARGET_URLS) = 2 /\ Returned(j)
       /\ task[j][1].commitOk /\ task[j][2].commitOk
       /\ task[j][1].content # task[j][2].content
       /\ task[j][1].cachedHash # Null /\ task[j][2].cachedHash = Null
       /\ StoredState(kv, TARGET_URLS[1]) = Committed(task[j][1])
       /\ StoredState(kv, TARGET_URLS[2]) = Committed(task[j][2])

\* ---------------------------------------------------------------------- C15
\* The checks of target i whose commit is applied by the step.
Writers(i) == {j \in Invs : ~task[j][i].commitOk /\ task'[j][i].commitOk}

\* C15 as stated: a fingerprint present in the store stays present across every
\* step, and the stored state of such a target is replaced only by the commit
\* of a check that detected a change (it had read a fingerprint and found it
\* different from the new one).
C15_AsStated ==
    [][\A i \in Idx :
          LET st == StoredState(kv, TARGET_URLS[i])
              nx == StoredState(kv', TARGET_URLS[i])
          IN st.hash # Null =>
                /\ nx.hash # Null
                /\ nx # st => \E j \in Writers(i) :
                                 /\ task[j][i].cachedHash # Null
                                 /\ task[j][i].cachedHash # task[j][i].hash
      ]_vars

\* C15: a fingerprint present in the store stays present across every step
\* (of successful, unchanged and failed checks alike), with content and
\* timestamp, so the target never returns to the cold state; the stored state
\* of such a target is replaced only by the commit of a check that did not
\* find the fingerprint it had read equal to the new one: a check that
\* detected a change, or a check of an overlapping invocation that had read
\* the store while the target was still cold.
C15_NeverDeleted ==
    [][\A i \in Idx :
          LET st == StoredState(kv, TARGET_URLS[i])
              nx == StoredState(kv', TARGET_URLS[i])
          IN st.hash # Null =>
                /\ nx.hash # Null /\ nx.content # Null /\ nx.updatedAt # Null
                /\ nx # st => \E j \in Writers(i) :
                                 /\ ~FoundEqual(task[j][i])
                                 /\ nx = Committed(task[j][i])
                                 /\ task[j][i].cachedHash = Null =>
                                        \E k \in Invs : task[k][i].commitOk /\ Overlap(j, k)
      ]_vars

\* A target cold at start was initialized by one invocation and then
\* overwritten by the first-run commit of an overlapping one; later checks
\* that failed left it present.
C15_Witness ==
    \E j1, j2 \in Invs :
       /\ Overlap(j1, j2) /\ Returned(j1) /\ Returned(j2)
       /\ StoredState(inv[j1].before, TARGET_URLS[1]).hash = Null
       /\ task[j1][1].seq = 1 /\ task[j2][1].seq = 2
       /\ task[j2][1].cachedHash = Null
       /\ task[j1][1].wrote # task[j2][1].wrote
       /\ task[j1][1].fault = "readUpdatedAt"
       /\ StoredState(kv, TARGET_URLS[1]) = task[j2][1].wrote

\* ---------------------------------------------------------------------- C16
Responded(j) == inv[j].http = "responded"

\* C16 as stated: every answered GET / or /health request answers with one
\* entry per target, in order, and the entry of a target whose check ended in
\* error reports the error, with its message.
C16_AsStated ==
    \A j \in Invs : Responded(j) =>
       /\ inv[j].response.status = 200
       /\ Len(inv[j].response.body.targets) = Len(TARGET_URLS)
       /\ \A i \in Idx :
             LET e == inv[j].response.body.targets[i]
                 r == inv[j].results[i]
             IN /\ e.url = TARGET_URLS[i]
                /\ r.status = "error" =>
                      /\ "error" \in DOMAIN e
                      /\ e.error = r.error

\* C16: an answered GET / or /health request answers either 200 with one entry
\* per target, in order, each entry made of the url, the changed flag and a
\* timestamp only (the timestamp of the result, or for a failed check, whose
\* changed flag is null, the stored one or null: neither the status nor the
\* error message is part of the entry), or 500 with the message of the failed
\* store read, which happens only when some check ended in error and the
\* handler's own read of that target's timestamp failed.
C16_StatusSurface ==
    \A j \in Invs : Responded(j) =>
       IF inv[j].response.status = 200
       THEN /\ inv[j].response.body.ok
            /\ Len(inv[j].response.body.targets) = Len(TARGET_URLS)
            /\ \A i \in Idx :
                  LET e == inv[j].response.body.targets[i]
                      r == inv[j].results[i]
                  IN /\ DOMAIN e = {"url", "changed", "updatedAt"}
                     /\ e.url = TARGET_URLS[i]
                     /\ e.changed = r.changed
                     /\ r.status = "error" => e.changed = "null"
                     /\ r.status # "error" => e.updatedAt = r.updatedAt /\ e.updatedAt # Null
                     /\ e.updatedAt = Null =>
                           (r.status = "error"
                            /\ StoredState(inv[j].before, TARGET_URLS[i]).updatedAt = Null)
       ELSE /\ inv[j].response.status = 500
            /\ inv[j].response.body = [message |-> KvGetError]
            /\ \E i \in Idx : inv[j].results[i].status = "error"

\* A request over two targets answered 200 with two entries: the first check
\* failed at its fetch and is reported with the stored timestamp, the second
\* detected a change.
C16_Witness ==
    \E j \in Invs :
       /\ Responded(j) /\ inv[j].response.status = 200
       /\ Len(TARGET_URLS) = 2
       /\ inv[j].results[1].status = "error" /\ task[j][1].fault = "fetch"
       /\ inv[j].results[2].status = "changed"
       /\ inv[j].response.body.targets[1].updatedAt # Null

\* ---------------------------------------------------------------------- C17
\* The checks that hold a fetched document and its normalized content.
Fetched(t) == t.pc \notin {"idle", "fetch"} /\ t.fault # "fetch"
\* A hidden input named as an anti-forgery token, whatever the order and the
\* case of its attributes.
IsAntiForgeryInput(t) ==
    /\ t.kind = "open" /\ Lower(t.name) = "input"
    /\ \E p \in 1..Len(t.attrs) :
          Lower(t.attrs[p][1]) = "type" /\ Lower(t.attrs[p][2]) = "hidden"
    /\ \E q \in 1..Len(t.attrs) :
          Lower(t.attrs[q][1]) = "name" /\ Lower(t.attrs[q][2]) \in CsrfNames
\* The token with the value of its value attribute replaced by v.
WithValue(t, v) ==
    [t EXCEPT !.attrs = [p \in 1..Len(t.attrs) |->
                            IF t.attrs[p][1] = "value" THEN Attr("value", v) ELSE t.attrs[p]]]
InsertAt(d, p, tok) == SubSeq(d, 1, p) \o <<tok>> \o SubSeq(d, p + 1, Len(d))
RemoveAt(d, p) == SubSeq(d, 1, p - 1) \o SubSeq(d, p + 1, Len(d))
\* The documents that differ from d only in the value of one anti-forgery
\* hidden input, in one comment (added or removed), or in the length of one run
\* of whitespace.
Variants(d) ==
    {[d EXCEPT ![p] = WithValue(d[p], "x2")] : p \in {x \in 1..Len(d) : IsAntiForgeryInput(d[x])}}
    \cup {InsertAt(d, p, Comment("c2")) : p \in 0..Len(d)}
    \cup {RemoveAt(d, p) : p \in {x \in 1..Len(d) : d[x].kind = "comment"}}
    \cup {InsertAt(d, p, Ws("\n")) : p \in {x \in 1..Len(d) : d[x].kind = "ws"}}

\* C17: for every fetched document d and every document d2 that differs from
\* d only in the value of an anti-forgery hidden input, in comments or in the
\* amount of whitespace, the normalized content and the fingerprint of d2 are
\* those of d, so a check that fetches d2 and reads d's fingerprint from the
\* store has status 'unchanged'.
C17_NormalizationStable ==
    \A j \in Invs : \A i \in Idx :
       LET t == task[j][i]
       IN Fetched(t) =>
             \A d2 \in Variants(t.fetched) :
                /\ ComparableContent(d2) = t.content
                /\ sha256Hex(ComparableContent(d2)) = t.hash
                /\ CheckResult([t EXCEPT !.hash = sha256Hex(ComparableContent(d2)),
                                         !.cachedHash = t.hash],
                               TARGET_URLS[i], toISOString(0)).status = "unchanged"

\* ---------------------------------------------------------------------- C18
\* C18: the normalized content of every fetched document contains no hidden
\* input named _token, csrf, csrf_token or authenticity_token, in whatever case
\* the name is written and in whatever order type and name appear in the tag.
C18_EveryCsrfInputRemoved ==
    \A j \in Invs : \A i \in Idx :
       Fetched(task[j][i]) =>
          \A p \in 1..Len(task[j][i].content) : ~IsAntiForgeryInput(task[j][i].content[p])

\* ---------------------------------------------------------------------- C19
\* The body region of d: the position of the first opening body tag that has a
\* closing body tag after it, and of the nearest such closing tag; <<>> when
\* there is none.
BodyRegion(d) ==
    LET starts == {p \in 1..Len(d) : /\ d[p].kind = "open" /\ Lower(d[p].name) = "body"
                                     /\ \E q \in (p + 1)..Len(d) :
                                           d[q].kind = "close" /\ Lower(d[q].name) = "body"}
    IN IF starts = {} THEN <<>>
       ELSE LET p == CHOOSE x \in starts : \A y \in starts : x <= y
                ends == {q \in (p + 1)..Len(d) : d[q].kind = "close" /\ Lower(d[q].name) = "body"}
            IN <<p, CHOOSE x \in ends : \A y \in ends : x <= y>>
\* What may stand before the region without moving it (anything but an opening
\* body tag) and after it (anything), up to one token.
Before == {<<>>} \cup {<<x>> : x \in {y \in NormToks : ~(y.kind = "open" /\ Lower(y.name) = "body")}}
After == {<<>>} \cup {<<x>> : x \in NormToks}

\* C19: when the fetched document d has a body region, its normalized content
\* is the sanitized inner content of that region and its fingerprint the
\* fingerprint of that, and every document with the same region and something
\* else before or after it has the same content and fingerprint; when d has no
\* body region, the whole of d is sanitized and fingerprinted.
C19_BodyRegionOnly ==
    \A j \in Invs : \A i \in Idx :
       LET t == task[j][i]
           d == t.fetched
           r == BodyRegion(t.fetched)
       IN Fetched(t) =>
             IF r = <<>>
             THEN /\ t.content = sanitizeDynamicContent(d)
                  /\ t.hash = sha256Hex(sanitizeDynamicContent(d))
             ELSE /\ t.content = sanitizeDynamicContent(SubSeq(d, r[1] + 1, r[2] - 1))
                  /\ t.hash = sha256Hex(t.content)
                  /\ \A b \in Before : \A a \in After :
                        LET d2 == b \o SubSeq(d, r[1], r[2]) \o a
                        IN /\ ComparableContent(d2) = t.content
                           /\ sha256Hex(ComparableContent(d2)) = t.hash

\* A fetched document with text before its body region, whose content is the
\* text inside the region only.
C19_Witness ==
    \E j \in Invs : \E i \in Idx :
       /\ Fetched(task[j][i])
       /\ task[j][i].fetched = <<Text("v2"), Open("BODY", <<>>), Text("v1"), Close("body")>>
       /\ task[j][i].content = <<Text("v1")>>

\* ---------------------------------------------------------------------- C20
\* The entries of a WATCH_URLS value: for each stretch between two commas (or
\* an end of the string) the stretch without its leading and trailing blanks,
\* when something is left; as <<position of the stretch, entry>>.
EntriesOf(s) ==
    LET cuts == {0, Len(s) + 1} \cup {p \in 1..Len(s) : s[p] = ","}
        stretch(a) == LET b == CHOOSE x \in cuts : x > a /\ \A y \in cuts : y > a => x <= y
                      IN <<a + 1, b - 1>>
        inner(a) == {p \in stretch(a)[1]..stretch(a)[2] : s[p] # " "}
        lo(a) == CHOOSE x \in inner(a) : \A y \in inner(a) : x <= y
        hi(a) == CHOOSE x \in inner(a) : \A y \in inner(a) : y <= x
    IN {<<a, SubSeq(s, lo(a), hi(a))>> : a \in {c \in cuts : c <= Len(s) /\ inner(c) # {}}}
FirstAt(E, e) == CHOOSE a \in {x[1] : x \in {y \in E : y[2] = e}} :
                    \A b \in {x[1] : x \in {y \in E : y[2] = e}} : a <= b

\* C20: for every value of WATCH_URLS (unset, empty, commas and blanks only, a
\* list with repeats) the configured list is non-empty, has no duplicates and
\* no blank entry; when the value has non-blank entries the list holds exactly
\* their trimmed texts, each once, in the order of their first occurrence;
\* otherwise it is the single default target.
C20_TargetList ==
    LET urls == config.urls
        E == IF config.env.set THEN EntriesOf(config.env.value) ELSE {}
    IN /\ Len(urls) >= 1
       /\ \A p, q \in 1..Len(urls) : p # q => urls[p] # urls[q]
       /\ \A p \in 1..Len(urls) :
             /\ urls[p] # <<>>
             /\ urls[p][1] # " " /\ urls[p][Len(urls[p])] # " "
             /\ \A c \in 1..Len(urls[p]) : urls[p][c] # ","
       /\ IF E = {} THEN urls = <<DefaultTarget>>
          ELSE /\ {urls[p] : p \in 1..Len(urls)} = {x[2] : x \in E}
               /\ \A p, q \in 1..Len(urls) : p < q => FirstAt(E, urls[p]) < FirstAt(E, urls[q])
       /\ \A j \in Invs : Returned(j) => Len(inv[j].results) = Len(urls)

\* WATCH_URLS = "b,a,b": the list is b then a, and the batch over it has
\* returned its two results.
C20_Witness ==
    /\ config.env = [set |-> TRUE, value |-> <<"b", ",", "a", ",", "b">>]
    /\ config.urls = << <<"b">>, <<"a">> >>
    /\ Returned(1) /\ inv[1].results[2].url = <<"a">>

\* ---------------------------------------------------------------------- C21
\* C21: when every pending fetch, store and notifier call eventually returns
\* or fails, every started per-target check eventually is done with a result
\* whose status is one of initialized, changed, unchanged, error, and every
\* started batch invocation eventually has returned, with one result per
\* target.
\* (Invocations are finitely many, so this is: again and again a state comes
\* in which no started check is short of its result and no started invocation
\* short of its return.)
Quiescent ==
    \A j \in Invs :
       /\ \A i \in Idx : task[j][i].pc # "idle" =>
             /\ task[j][i].pc = "done" /\ task[j][i].result # Null
             /\ task[j][i].result.status \in Statuses
       /\ inv[j].pc # "idle" =>
             inv[j].pc = "returned" /\ Len(inv[j].results) = Len(TARGET_URLS)
C21_EveryCheckTerminates == []<>Quiescent

\* A returned batch over two targets in which one check found its target
\* unchanged and the other initialized a cold one.
C21_Witness ==
    \E j \in Invs :
       /\ Returned(j) /\ Len(TARGET_URLS) = 2
       /\ {inv[j].results[1].status, inv[j].results[2].status} = {"unchanged", "initialized"}

\* ---------------------------------------------------------------------- C22
\* Invocation j1 failed to fetch target i, whose stored state was that of an
\* earlier document; the next invocation j2 fetched a document with another
\* fingerprint and its check is done.
PendingChangeFetched(j1, j2, i) ==
    /\ Consecutive(j1, j2)
    /\ task[j1][i].pc = "done" /\ task[j1][i].fault = "fetch"
    /\ task[j2][i].pc = "done" /\ task[j2][i].fault # "fetch"
    /\ StoredState(inv[j1].before, TARGET_URLS[i]).hash # Null
    /\ StoredState(inv[j1].before, TARGET_URLS[i]).hash
          # sha256Hex(ComparableContent(task[j2][i].fetched))

\* C22 as stated: after a check that failed to fetch, the next check that
\* fetches the changed document returns changed and has called notifyAdmin
\* exactly once.
C22_AsStated ==
    \A j1 \in Invs : \A j2 \in Invs : \A i \in Idx :
       PendingChangeFetched(j1, j2, i) =>
          /\ task[j2][i].result.status = "changed"
          /\ Calls(task[j2][i]) = 1

\* C22: after a check that failed to fetch, the store is as before it, and
\* the next check, which fetches the changed document, compares against that
\* state; when none of its store calls fails it returns changed, with the old
\* fingerprint as previousHash, and has called notifyAdmin exactly once; when
\* its read of the fingerprint or its commit fails it returns error, has
\* notified nobody and has left the old state in place (the change is still
\* pending); when its read of updatedAt after the commit fails it returns
\* error, the change committed and notifyAdmin called once.
C22_PendingChangeKept ==
    \A j1 \in Invs : \A j2 \in Invs : \A i \in Idx :
       PendingChangeFetched(j1, j2, i) =>
          LET t == task[j2][i]
              old == StoredState(inv[j1].before, TARGET_URLS[i])
          IN /\ StoredState(inv[j2].before, TARGET_URLS[i]) = old
             /\ t.fault # "getCachedHash" => t.cachedHash = old.hash
             /\ t.fault = "" =>
                   /\ t.result.status = "changed" /\ t.result.previousHash = old.hash
                   /\ Calls(t) = 1 /\ Contains(t.msg, TARGET_URLS[i])
                   /\ StoredState(kv, TARGET_URLS[i]) = Committed(t)
             /\ t.fault \in {"getCachedHash", "setCache"} =>
                   /\ t.result.status = "error" /\ Calls(t) = 0
                   /\ StoredState(kv, TARGET_URLS[i]) = old
             /\ t.fault = "readUpdatedAt" =>
                   /\ t.result.status = "error" /\ Calls(t) = 1 /\ t.commitOk
                   /\ StoredState(kv, TARGET_URLS[i]) = Committed(t)

\* The store holds DocA's state, a first check fails at its fetch, the next one
\* fetches DocB, returns changed and its notification is delivered.
C22_Witness ==
    \E j1 \in Invs : \E j2 \in Invs : \E i \in Idx :
       /\ PendingChangeFetched(j1, j2, i)
       /\ Succeeded(task[j2][i]) /\ task[j2][i].fetched = DocB
       /\ task[j2][i].result.status = "changed" /\ task[j2][i].notify = "delivered"

\* ---------------------------------------------------------------------- C23
\* C23: a check whose result has status error has committed nothing (the
\* stored state of its target is not of its making) and has not called
\* notifyAdmin; and a check that has committed has, once done, a result with
\* status initialized or changed, also when its read of updatedAt after the
\* commit failed.
C23_ErrorMeansNoEffect ==
    \A j \in Invs : \A i \in Idx :
       LET t == task[j][i]
       IN t.pc = "done" =>
             /\ t.result.status = "error" =>
                   /\ ~t.commitOk /\ t.wrote = Null
                   /\ Calls(t) = 0 /\ t.notify = "none"
             /\ t.commitOk => t.result.status \in {"initialized", "changed"}

\* ---------------------------------------------------------------------- C24
\* C24: when two overlapping invocations check a target whose stored state is
\* that of document A while the site serves one changed document B, and no call
\* of either check fails, notifyAdmin is called exactly once across the two
\* checks.
C24_OneNotificationPerChange ==
    \A j1 \in Invs : \A j2 \in Invs : \A i \in Idx :
       ( /\ Overlap(j1, j2) /\ j2 \notin inv[j1].after /\ inv[j1].after = {}
         /\ \A k \in Invs \ {j1, j2} : inv[k].pc = "idle"
         /\ Succeeded(task[j1][i]) /\ Succeeded(task[j2][i])
         /\ StoredState(inv[j1].before, TARGET_URLS[i]).hash # Null
         /\ StoredState(inv[j2].before, TARGET_URLS[i]).hash # Null
         /\ task[j1][i].hash = task[j2][i].hash
         /\ task[j1][i].hash # StoredState(inv[j1].before, TARGET_URLS[i]).hash )
       => Calls(task[j1][i]) + Calls(task[j2][i]) = 1

\* ---------------------------------------------------------------------- C25
\* The step produces the result of check i of invocation j, with status
\* initialized or changed.
ProducesCommitted(j, i) ==
    /\ task[j][i].pc = "readUpdatedAt" /\ task'[j][i].pc = "done"
    /\ task'[j][i].result.status \in {"initialized", "changed"}

\* C25 as stated: when a result with status initialized or changed is
\* produced, its updatedAt is the timestamp that check's own commit wrote and
\* its hash is the fingerprint stored at that moment, whatever other
\* invocations do meanwhile.
C25_AsStated ==
    [][\A j \in Invs : \A i \in Idx :
          ProducesCommitted(j, i) =>
             /\ task'[j][i].result.updatedAt = task[j][i].now
             /\ task'[j][i].result.hash = KvGet(kv, <<"watcher", TARGET_URLS[i], "hash">>)
      ]_vars

\* C25: when a result with status initialized or changed is produced, its hash
\* is the fingerprint that check committed and its updatedAt is the timestamp
\* the store holds at that moment, which is the timestamp of the commit made
\* last to the target; when no other invocation has committed to the target
\* since this check's commit, that is this check's own timestamp and the
\* reported hash is the stored fingerprint.
C25_ReportedState ==
    [][\A j \in Invs : \A i \in Idx :
          ProducesCommitted(j, i) =>
             LET t == task[j][i]
                 r == task'[j][i].result
             IN /\ t.commitOk
                /\ r.hash = t.hash /\ r.hash = t.wrote.hash
                /\ r.updatedAt = KvGet(kv, <<"watcher", TARGET_URLS[i], "updatedAt">>)
                /\ \E k \in Invs : /\ task[k][i].seq = CommitsTo(i)
                                   /\ r.updatedAt = task[k][i].now
                /\ t.seq = CommitsTo(i) =>
                      /\ r.updatedAt = t.now
                      /\ r.hash = KvGet(kv, <<"watcher", TARGET_URLS[i], "hash">>)
      ]_vars

\* A check committed, an overlapping invocation committed another document to
\* the same target with another timestamp, and then the first check produced
\* its result: it reports its own hash with the other commit's timestamp.
C25_Witness ==
    \E j1, j2 \in Invs :
       /\ Overlap(j1, j2)
       /\ Succeeded(task[j1][1]) /\ task[j1][1].result.status \in {"initialized", "changed"}
       /\ task[j1][1].seq = 1 /\ task[j2][1].seq = 2
       /\ task[j2][1].now # task[j1][1].now /\ task[j2][1].hash # task[j1][1].hash
       /\ task[j1][1].result.updatedAt = task[j2][1].now
       /\ task[j1][1].result.hash = task[j1][1].hash

\* ---------------------------------------------------------------------- C26
\* Check i of invocation j1 returned changed with its notification skipped or
\* failed, and the next invocation j2 has fetched a document with the same
\* fingerprint and its check is done.
UndeliveredThenSame(j1, j2, i) ==
    /\ Consecutive(j1, j2)
    /\ task[j1][i].pc = "done" /\ task[j1][i].result.status = "changed"
    /\ task[j1][i].notify \in {"skipped", "failed"}
    /\ task[j2][i].pc = "done" /\ task[j2][i].fault # "fetch"
    /\ task[j2][i].hash = task[j1][i].hash

\* C26 as stated: after a changed check whose notification was skipped or
\* failed, the next check that fetches the same document returns unchanged and
\* does not call notifyAdmin.
C26_AsStated ==
    \A j1 \in Invs : \A j2 \in Invs : \A i \in Idx :
       UndeliveredThenSame(j1, j2, i) =>
          /\ task[j2][i].result.status = "unchanged"
          /\ Calls(task[j2][i]) = 0

\* C26: after a changed check whose notification was skipped or failed, the
\* next check that fetches the same document neither commits nor calls
\* notifyAdmin (the one call made for the change stays the only one, and
\* nobody was told), the store keeps what the changed check committed, and
\* the check returns unchanged with the timestamp of that commit, or error
\* when its read of the stored fingerprint or of updatedAt fails.
C26_UndeliveredStaysLost ==
    \A j1 \in Invs : \A j2 \in Invs : \A i \in Idx :
       UndeliveredThenSame(j1, j2, i) =>
          LET t1 == task[j1][i]
              t2 == task[j2][i]
          IN /\ Calls(t2) = 0 /\ t2.notify = "none" /\ t2.commits = 0
             /\ Calls(t1) + Calls(t2) = 1
             /\ StoredState(kv, TARGET_URLS[i]) = Committed(t1)
             /\ t2.fault \in {"", "getCachedHash", "readUpdatedAt"}
             /\ t2.fault = "" =>
                   /\ t2.result.status = "unchanged"
                   /\ t2.result.updatedAt = t1.now
             /\ t2.fault # "" => t2.result.status = "error"

\* The store holds DocA's state; a check fetches DocB, commits, its sendMessage
\* fails, it returns changed; the next check fetches DocB again and returns
\* unchanged without notifying.
C26_Witness ==
    \E j1 \in Invs : \E j2 \in Invs : \E i \in Idx :
       /\ UndeliveredThenSame(j1, j2, i)
       /\ task[j1][i].notify = "failed" /\ task[j1][i].fetched = DocB
       /\ Succeeded(task[j2][i]) /\ task[j2][i].fetched = DocB
       /\ task[j2][i].result.status = "unchanged"

====
